---- MODULE Spec2Model ----
(***************************************************************************)
(* ADF5355 synthesizer firmware: the single-device configurable sketch     *)
(* (src/test.cpp) and the dual-device 3 s ON / 3 s OFF sketch              *)
(* (src/Optics Table/Variable Frequency Setup/10.525_GHz_..._Sketch.cpp).  *)
(*                                                                         *)
(* Frequencies are integers in units of 100 Hz (a 32-bit integer cannot    *)
(* hold 10.525e9): 10 MHz = 100000, 6 GHz = 60000000, 1 kHz = 10.          *)
(* The planner's double arithmetic is evaluated exactly on these integers. *)
(* The one place where the rounding error of a double decides the result   *)
(* is llround of a value whose exact fraction is 1/2 and whose operand     *)
(* N = vco / pfd is not representable in binary: there both neighbours are *)
(* possible outcomes (see planFrequency).                                  *)
(***************************************************************************)
EXTENDS Integers, Sequences, FiniteSets, TLC

VARIABLES
    prog,        \* which firmware runs: "test" (test.cpp) or "sketch" (dual-device sketch)
    rf_out_hz,   \* test.cpp: RF_OUT_HZ, the argument of planFrequency (units of 100 Hz)
    channel_step_hz, \* test.cpp: the setting CHANNEL_STEP_HZ (units of 100 Hz)
    pc,          \* position of the single thread of control
    p,           \* test.cpp: PllParams p of configureFromUserSettings
    serialErr,   \* test.cpp: "ERROR: Cannot place VCO in range..." has been printed
    regImage,    \* test.cpp: the global regImage[13]
    dev,         \* device whose bus and LE line the running writeReg drives
    i,           \* loop index of writeAllRegs (12..0) / programPLL (0..12)
    reg,         \* parameter reg of the running writeReg
    nbyte,       \* number of spi.transfer calls the running writeReg has made
    LE,          \* level of each device's latch-enable line
    CE,          \* level of each device's chip-enable line
    shift,       \* per device: bytes clocked into the chip since the last LE rising edge
    latched,     \* per device: the byte groups latched at each LE rising edge, in order
    trace        \* per device: bus transfers, LE edges and delays of the programming pass

vars == <<prog, rf_out_hz, channel_step_hz, pc, p, serialErr, regImage, dev, i, reg, nbyte,
          LE, CE, shift, latched, trace>>

-----------------------------------------------------------------------------
(* Bounds of the model: the grid of target frequencies tried.              *)

MaxCoarse == 560

MaxFine == 1

CoarseStep == 250000

FineStep == 99996

Targets == { c * CoarseStep + f * FineStep : c \in 1..MaxCoarse, f \in 0..MaxFine }

MaxStepMul == 2

StepUnit == 50000

-----------------------------------------------------------------------------
(* USER SETTINGS of test.cpp (units of 100 Hz).                            *)

REF_IN_HZ == 100000

REF_DOUBLER == FALSE

REF_DIV2 == FALSE

R_DIV == 1

RF_OUT_HZ == 105250000

USE_RFOUTB == TRUE

CHANNEL_STEP_HZ == 10

PWR_MAX == 4

OUTPUT_POWER == PWR_MAX

OUTPUT_ENABLE == TRUE

TOGGLE_CE_IN_LOOP == FALSE

VCO_MIN == 60000000

VCO_MAX == 130000000

MOD_MAX == 16777215

\* the channel steps tried: the shipped 1 kHz and multiples of 5 MHz
ChannelSteps == {CHANNEL_STEP_HZ} \cup { k * StepUnit : k \in 1..MaxStepMul }

DevicesOf(g) == IF g = "test" THEN {"T"} ELSE {"A", "B"}

-----------------------------------------------------------------------------
(* Frequency planning (test.cpp).                                          *)

\* struct PllParams with its default member initializers
PllParams == [pfd_hz |-> 0, INT |-> 0, FRAC |-> 0, MOD |-> 0, out_div |-> 1,
              rfouta_en |-> FALSE, rfoutb_en |-> FALSE, pwr |-> PWR_MAX]

RECURSIVE gcd_u32(_, _)
gcd_u32(a, b) == IF b # 0 THEN gcd_u32(b, a % b) ELSE a

RECURSIVE IsPow2(_)
IsPow2(n) == n = 1 \/ (n > 1 /\ n % 2 = 0 /\ IsPow2(n \div 2))

\* num / den is a binary fraction, i.e. the double quotient is exact
ExactInDouble(num, den) == IsPow2(den \div gcd_u32(num, den))

\* llround(num / den) for num >= 0, den > 0: nearest integer, halves away from zero
llround(num, den) == (num \div den) + (IF 2 * (num % den) >= den THEN 1 ELSE 0)

\* PFD = REF * (doubler ? 2 : 1) / (div2 ? 2 : 1) / R_DIV
pfd_of_ref == ((REF_IN_HZ * (IF REF_DOUBLER THEN 2 ELSE 1)) \div (IF REF_DIV2 THEN 2 ELSE 1)) \div R_DIV

\* uint8_t div = 1; while ((rf_out_hz * div) < VCO_MIN && div < 64) div *= 2;
RECURSIVE chooseDiv(_, _)
chooseDiv(rf, div) ==
    IF rf * div < VCO_MIN /\ div < 64 THEN chooseDiv(rf, (div * 2) % 256) ELSE div

\* if (vco > VCO_MAX) Serial.println("ERROR: ...")
reportsRangeError(rf) == rf * chooseDiv(rf, 1) > VCO_MAX

\* mod = llround(pfd / (step * out_div)), then the two clamps
chooseModAt(step, pfd, div) ==
    LET m0 == llround(pfd, step * div)
        m1 == IF m0 < 2 THEN 2 ELSE m0
    IN  IF m1 > MOD_MAX THEN MOD_MAX ELSE m1

\* the same under the configured CHANNEL_STEP_HZ
chooseMod(pfd, div) == chooseModAt(channel_step_hz, pfd, div)

\* FRAC = llround((N - INT) * mod) with N = vco / pfd: the possible results
rawFRAC(vco, pfd, mod) ==
    LET num == (vco % pfd) * mod
        tie == 2 * (num % pfd) = pfd
    IN  IF tie /\ ~ExactInDouble(vco % pfd, pfd)
        THEN {num \div pfd, (num \div pfd) + 1}
        ELSE {llround(num, pfd)}

\* faulty variant: the rounding overflow is not handled
roundingOverflow_unhandled(n, f, mod) == <<n, f>>

\* if (FRAC == mod) { FRAC = 0; INT += 1; }
roundingOverflow(n, f, mod) == IF f = mod THEN <<n + 1, 0>> ELSE <<n, f>>

\* faulty variant: the fraction is not reduced
reduceFraction_none(f, mod) == <<f, mod>>

\* faulty variant: only FRAC is divided by the gcd
reduceFraction_fracOnly(f, mod) ==
    LET g == gcd_u32(f, mod)
    IN  IF g > 1 THEN <<f \div g, mod>> ELSE <<f, mod>>

\* g = gcd(FRAC, mod); if (g > 1) { FRAC /= g; mod /= g; }
reduceFraction(f, mod) ==
    LET g == gcd_u32(f, mod)
    IN  IF g > 1 THEN <<f \div g, mod \div g>> ELSE <<f, mod>>

\* The set of PllParams planFrequency(rf) can return when CHANNEL_STEP_HZ is step
planFrequencyAt(step, rf) ==
    LET pfd == pfd_of_ref
        div == chooseDiv(rf, 1)
        vco == rf * div
        mod == chooseModAt(step, pfd, div)
    IN  { LET nf == roundingOverflow(vco \div pfd, f, mod)
              fm == reduceFraction(nf[2], mod)
          IN  [pfd_hz |-> pfd, INT |-> nf[1], FRAC |-> fm[1], MOD |-> fm[2],
               out_div |-> div,
               rfouta_en |-> (~USE_RFOUTB) /\ OUTPUT_ENABLE,
               rfoutb_en |-> USE_RFOUTB /\ OUTPUT_ENABLE,
               pwr |-> OUTPUT_POWER]
          : f \in rawFRAC(vco, pfd, mod) }

\* The set of PllParams planFrequency(rf) can return under the configured settings
planFrequency(rf) == planFrequencyAt(channel_step_hz, rf)

-----------------------------------------------------------------------------
(* Register image (test.cpp) and register list (sketch).                   *)

\* static uint32_t regImage[13] = {...}: element j of the initializer is regImage[j]
regImageBase ==
    [j \in 0..12 |->
        << \H0001040C, \H0061300B, \H00C0000A, \H00000009, \H102D0428,
           \H12000007, \H35000006, \H00800005, \H00000004, \H00000003,
           \H00001002, \H00000A41, \H00550000 >>[j + 1]]

\* uint32_t regs[13] = {...} of programPLL: element j of the initializer is regs[j]
regs ==
    [j \in 0..12 |->
        << \H0001040C, \H0061300B, \H00C0000A, \H00000009, \H102D0428,
           \H12000007, \H35000006, \H00800005, \H00000004, \H00000003,
           \H00001002, \H00000A41, \H00550000 >>[j + 1]]

\* faulty variant: the address mask clears the low byte instead of the low nibble
withAddr_byteMask(word, r) == (word - (word % 256)) + (r % 16)

\* word &= ~0xFu; word |= (r & 0x0F);
withAddr(word, r) == (word - (word % 16)) + (r % 16)

\* regImage[k] = withAddr(regImage[k], k) for k = 12..0
applyFrequencyToRegs(img) == [k \in 0..12 |-> withAddr(img[k], k)]

\* faulty variant: the bytes go out least-significant first
transferByte_lsbFirst(w, n) == (w \div (2 ^ (8 * n))) % 256

\* the n-th spi.transfer of writeReg: (reg >> 24, 16, 8, 0) & 0xFF for n = 0, 1, 2, 3
transferByte(w, n) == (w \div (2 ^ (8 * (3 - n)))) % 256

-----------------------------------------------------------------------------
(* Events recorded per device during a programming pass.                   *)

Xfer(b) == [ev |-> "xfer", v |-> b]
LineLE(l) == [ev |-> "LE", v |-> IF l = "HIGH" THEN 1 ELSE 0]
DelayUs(n) == [ev |-> "delay_us", v |-> n]
DelayMs(n) == [ev |-> "delay_ms", v |-> n]

-----------------------------------------------------------------------------
\* the state at reset, with the settings drawn from the given sets
InitWith(targets, steps) ==
    /\ prog \in {"test", "sketch"}
    /\ rf_out_hz \in (IF prog = "test" THEN targets ELSE {RF_OUT_HZ})
    /\ channel_step_hz \in (IF prog = "test" THEN steps ELSE {CHANNEL_STEP_HZ})
    /\ pc = "setup"
    /\ p = PllParams
    /\ serialErr = FALSE
    /\ regImage = regImageBase
    /\ dev = IF prog = "test" THEN "T" ELSE "A"
    /\ i = 0
    /\ reg = 0
    /\ nbyte = 0
    /\ LE = [d \in DevicesOf(prog) |-> "Z"]
    /\ CE = [d \in DevicesOf(prog) |-> "Z"]
    /\ shift = [d \in DevicesOf(prog) |-> <<>>]
    /\ latched = [d \in DevicesOf(prog) |-> <<>>]
    /\ trace = [d \in DevicesOf(prog) |-> <<>>]

Init == InitWith(Targets, ChannelSteps)

\* the firmware as shipped: RF_OUT_HZ = 10.525 GHz, CHANNEL_STEP_HZ = 1 kHz
InitShipped == InitWith({RF_OUT_HZ}, {CHANNEL_STEP_HZ})

-----------------------------------------------------------------------------
(* writeReg and pulseLE, the same in both files, on device d.              *)

\* one spi.transfer of writeReg; after the fourth, writeReg calls pulseLE
writeReg(d) ==
    /\ nbyte < 4
    /\ shift' = [shift EXCEPT ![d] = Append(@, transferByte(reg, nbyte))]
    /\ trace' = [trace EXCEPT ![d] = Append(@, Xfer(transferByte(reg, nbyte)))]
    /\ nbyte' = nbyte + 1
    /\ pc' = IF nbyte + 1 = 4 THEN "pulseHigh" ELSE "transfer"
    /\ UNCHANGED <<prog, rf_out_hz, channel_step_hz, p, serialErr, regImage, dev, i, reg, LE, CE, latched>>

\* digitalWrite(LE, HIGH); delayMicroseconds(2): a rising edge latches the shifted bytes
pulseLE_high(d) ==
    /\ LE' = [LE EXCEPT ![d] = "HIGH"]
    /\ IF LE[d] # "HIGH"
       THEN /\ latched' = [latched EXCEPT ![d] = Append(@, shift[d])]
            /\ shift' = [shift EXCEPT ![d] = <<>>]
       ELSE UNCHANGED <<latched, shift>>
    /\ trace' = [trace EXCEPT ![d] = @ \o <<LineLE("HIGH"), DelayUs(2)>>]
    /\ pc' = "pulseLow"
    /\ UNCHANGED <<prog, rf_out_hz, channel_step_hz, p, serialErr, regImage, dev, i, reg, nbyte, CE>>

\* faulty variant: the latch line is not returned low
pulseLE_low_stuck(d) ==
    /\ trace' = [trace EXCEPT ![d] = Append(@, DelayUs(2))]
    /\ pc' = "settle"
    /\ UNCHANGED <<prog, rf_out_hz, channel_step_hz, p, serialErr, regImage, dev, i, reg, nbyte, LE, CE,
                   shift, latched>>

\* digitalWrite(LE, LOW); delayMicroseconds(2)
pulseLE_low(d) ==
    /\ LE' = [LE EXCEPT ![d] = "LOW"]
    /\ trace' = [trace EXCEPT ![d] = @ \o <<LineLE("LOW"), DelayUs(2)>>]
    /\ pc' = "settle"
    /\ UNCHANGED <<prog, rf_out_hz, channel_step_hz, p, serialErr, regImage, dev, i, reg, nbyte, CE,
                   shift, latched>>

-----------------------------------------------------------------------------
(* test.cpp: setup -> configureFromUserSettings -> CE HIGH -> loop.        *)

\* faulty variant: setup drives CE high before the device is programmed
test_setup_ceHigh ==
    /\ prog = "test" /\ pc = "setup"
    /\ LE' = [LE EXCEPT !["T"] = "LOW"]
    /\ CE' = [CE EXCEPT !["T"] = "HIGH"]
    /\ pc' = "configure"
    /\ UNCHANGED <<prog, rf_out_hz, channel_step_hz, p, serialErr, regImage, dev, i, reg, nbyte,
                   shift, latched, trace>>

\* setup(): pinMode(OUTPUT), LE LOW, CE LOW, hspi.begin, up to the call at line 281
test_setup ==
    /\ prog = "test" /\ pc = "setup"
    /\ LE' = [LE EXCEPT !["T"] = "LOW"]
    /\ CE' = [CE EXCEPT !["T"] = "LOW"]
    /\ pc' = "configure"
    /\ UNCHANGED <<prog, rf_out_hz, channel_step_hz, p, serialErr, regImage, dev, i, reg, nbyte,
                   shift, latched, trace>>

\* configureFromUserSettings: PllParams p = planFrequency(RF_OUT_HZ)
test_planFrequency ==
    /\ prog = "test" /\ pc = "configure"
    /\ p' \in planFrequency(rf_out_hz)
    /\ serialErr' = reportsRangeError(rf_out_hz)
    /\ pc' = "applyFrequency"
    /\ UNCHANGED <<prog, rf_out_hz, channel_step_hz, regImage, dev, i, reg, nbyte, LE, CE,
                   shift, latched, trace>>

\* faulty variant: the planned INT is patched into register 0
test_applyFrequencyToRegs_patchesINT ==
    /\ prog = "test" /\ pc = "applyFrequency"
    /\ regImage' = [applyFrequencyToRegs(regImage) EXCEPT ![0] = withAddr(p.INT * 16, 0)]
    /\ pc' = "applyOutput"
    /\ UNCHANGED <<prog, rf_out_hz, channel_step_hz, p, serialErr, dev, i, reg, nbyte, LE, CE,
                   shift, latched, trace>>

\* configureFromUserSettings: applyFrequencyToRegs(p)
test_applyFrequencyToRegs ==
    /\ prog = "test" /\ pc = "applyFrequency"
    /\ regImage' = applyFrequencyToRegs(regImage)
    /\ pc' = "applyOutput"
    /\ UNCHANGED <<prog, rf_out_hz, channel_step_hz, p, serialErr, dev, i, reg, nbyte, LE, CE,
                   shift, latched, trace>>

\* configureFromUserSettings: applyOutputToRegs(p) (empty body), then writeAllRegs() is entered
test_applyOutputToRegs ==
    /\ prog = "test" /\ pc = "applyOutput"
    /\ i' = 12
    /\ pc' = "writeAll"
    /\ UNCHANGED <<prog, rf_out_hz, channel_step_hz, p, serialErr, regImage, dev, reg, nbyte, LE, CE,
                   shift, latched, trace>>

\* faulty variant: the loop stops before register 0 (i > 0 for i >= 0)
test_writeAllRegs_skipsR0 ==
    /\ prog = "test" /\ pc = "writeAll"
    /\ IF i > 0
       THEN /\ reg' = regImage[i]
            /\ nbyte' = 0
            /\ pc' = "transfer"
       ELSE /\ pc' = "enable"
            /\ UNCHANGED <<reg, nbyte>>
    /\ UNCHANGED <<prog, rf_out_hz, channel_step_hz, p, serialErr, regImage, dev, i, LE, CE,
                   shift, latched, trace>>

\* writeAllRegs: for (int i = 12; i >= 0; --i) writeReg(regImage[i]); on exit back in setup
test_writeAllRegs ==
    /\ prog = "test" /\ pc = "writeAll"
    /\ IF i >= 0
       THEN /\ reg' = regImage[i]
            /\ nbyte' = 0
            /\ pc' = "transfer"
       ELSE /\ pc' = "enable"
            /\ UNCHANGED <<reg, nbyte>>
    /\ UNCHANGED <<prog, rf_out_hz, channel_step_hz, p, serialErr, regImage, dev, i, LE, CE,
                   shift, latched, trace>>

test_writeReg == prog = "test" /\ pc = "transfer" /\ writeReg("T")

test_pulseLE_high == prog = "test" /\ pc = "pulseHigh" /\ pulseLE_high("T")

test_pulseLE_low == prog = "test" /\ pc = "pulseLow" /\ pulseLE_low("T")

\* writeAllRegs: delay(2); --i
test_settle ==
    /\ prog = "test" /\ pc = "settle"
    /\ trace' = [trace EXCEPT !["T"] = Append(@, DelayMs(2))]
    /\ i' = i - 1
    /\ pc' = "writeAll"
    /\ UNCHANGED <<prog, rf_out_hz, channel_step_hz, p, serialErr, regImage, dev, reg, nbyte, LE, CE,
                   shift, latched>>

\* setup(): digitalWrite(PIN_CE, HIGH); lock-detect read-out; return
test_enable ==
    /\ prog = "test" /\ pc = "enable"
    /\ CE' = [CE EXCEPT !["T"] = "HIGH"]
    /\ pc' = "loop"
    /\ UNCHANGED <<prog, rf_out_hz, channel_step_hz, p, serialErr, regImage, dev, i, reg, nbyte, LE,
                   shift, latched, trace>>

\* loop(): if (!TOGGLE_CE_IN_LOOP) { delay(1000); return; }  else CE HIGH; delay(2000)
test_loop ==
    /\ prog = "test" /\ pc = "loop"
    /\ IF ~TOGGLE_CE_IN_LOOP
       THEN pc' = "loopDelay" /\ UNCHANGED CE
       ELSE pc' = "loopHigh" /\ CE' = [CE EXCEPT !["T"] = "HIGH"]
    /\ UNCHANGED <<prog, rf_out_hz, channel_step_hz, p, serialErr, regImage, dev, i, reg, nbyte, LE,
                   shift, latched, trace>>

\* loop(): end of delay(1000) and return; or CE LOW; delay(2000) and return
test_loop_delay ==
    /\ prog = "test" /\ pc \in {"loopDelay", "loopHigh", "loopLow"}
    /\ IF pc = "loopHigh"
       THEN pc' = "loopLow" /\ CE' = [CE EXCEPT !["T"] = "LOW"]
       ELSE pc' = "loop" /\ UNCHANGED CE
    /\ UNCHANGED <<prog, rf_out_hz, channel_step_hz, p, serialErr, regImage, dev, i, reg, nbyte, LE,
                   shift, latched, trace>>

-----------------------------------------------------------------------------
(* Dual-device sketch: setup programs A, then B; loop toggles both CE.     *)

\* setup(): pinMode(OUTPUT) and LOW on A_LE, A_CE, B_LE, B_CE; spi begin; programPLL(spiA, ...)
sketch_setup ==
    /\ prog = "sketch" /\ pc = "setup"
    /\ LE' = [d \in {"A", "B"} |-> "LOW"]
    /\ CE' = [d \in {"A", "B"} |-> "LOW"]
    /\ dev' = "A"
    /\ i' = 0
    /\ pc' = "programPLL"
    /\ UNCHANGED <<prog, rf_out_hz, channel_step_hz, p, serialErr, regImage, reg, nbyte,
                   shift, latched, trace>>

\* programPLL: for (int i = 0; i < 13; i++) writeReg(spi, pinLE, regs[i]);
\* on exit setup() calls programPLL for board B, then returns
sketch_programPLL ==
    /\ prog = "sketch" /\ pc = "programPLL"
    /\ IF i < 13
       THEN /\ reg' = regs[i]
            /\ nbyte' = 0
            /\ pc' = "transfer"
            /\ UNCHANGED <<dev, i>>
       ELSE /\ IF dev = "A"
               THEN dev' = "B" /\ i' = 0 /\ pc' = "programPLL"
               ELSE pc' = "onA" /\ UNCHANGED <<dev, i>>
            /\ UNCHANGED <<reg, nbyte>>
    /\ UNCHANGED <<prog, rf_out_hz, channel_step_hz, p, serialErr, regImage, LE, CE,
                   shift, latched, trace>>

sketch_writeReg == prog = "sketch" /\ pc = "transfer" /\ writeReg(dev)

\* faulty variant: programPLL for board B is handed board A's LE pin
sketch_pulseLE_high_pinA == prog = "sketch" /\ pc = "pulseHigh" /\ pulseLE_high("A")

sketch_pulseLE_high == prog = "sketch" /\ pc = "pulseHigh" /\ pulseLE_high(dev)

\* faulty variant: the falling edge always goes to board A's LE pin
sketch_pulseLE_low_pinA == prog = "sketch" /\ pc = "pulseLow" /\ pulseLE_low("A")

sketch_pulseLE_low == prog = "sketch" /\ pc = "pulseLow" /\ pulseLE_low(dev)

\* programPLL: delay(2); i++
sketch_settle ==
    /\ prog = "sketch" /\ pc = "settle"
    /\ trace' = [trace EXCEPT ![dev] = Append(@, DelayMs(2))]
    /\ i' = i + 1
    /\ pc' = "programPLL"
    /\ UNCHANGED <<prog, rf_out_hz, channel_step_hz, p, serialErr, regImage, dev, reg, nbyte, LE, CE,
                   shift, latched>>

\* one digitalWrite(<d>_CE, level) of loop(), continuing at label next
sketch_writeCE(at, d, level, next) ==
    /\ prog = "sketch" /\ pc = at
    /\ CE' = [CE EXCEPT ![d] = level]
    /\ pc' = next
    /\ UNCHANGED <<prog, rf_out_hz, channel_step_hz, p, serialErr, regImage, dev, i, reg, nbyte, LE,
                   shift, latched, trace>>

\* one delay(3000) of loop(), continuing at label next
sketch_dwell(at, next) ==
    /\ prog = "sketch" /\ pc = at
    /\ pc' = next
    /\ UNCHANGED <<prog, rf_out_hz, channel_step_hz, p, serialErr, regImage, dev, i, reg, nbyte, LE, CE,
                   shift, latched, trace>>

\* faulty variant: the delay comes between the two CE writes of the ON phase
sketch_loop_onA_thenDelay == sketch_writeCE("onA", "A", "HIGH", "dwellOn")

sketch_loop_onA == sketch_writeCE("onA", "A", "HIGH", "onB")

sketch_loop_onB == sketch_writeCE("onB", "B", "HIGH", "dwellOn")

sketch_loop_dwellOn == sketch_dwell("dwellOn", "offA")

sketch_loop_offA == sketch_writeCE("offA", "A", "LOW", "offB")

sketch_loop_offB == sketch_writeCE("offB", "B", "LOW", "dwellOff")

\* faulty variant: after the OFF dwell the loop repeats the OFF phase
sketch_loop_dwellOff_repeatsOff == sketch_dwell("dwellOff", "offA")

sketch_loop_dwellOff == sketch_dwell("dwellOff", "onA")

-----------------------------------------------------------------------------
Next ==
    \/ test_setup
    \/ test_planFrequency
    \/ test_applyFrequencyToRegs
    \/ test_applyOutputToRegs
    \/ test_writeAllRegs
    \/ test_writeReg
    \/ test_pulseLE_high
    \/ test_pulseLE_low
    \/ test_settle
    \/ test_enable
    \/ test_loop
    \/ test_loop_delay
    \/ sketch_setup
    \/ sketch_programPLL
    \/ sketch_writeReg
    \/ sketch_pulseLE_high
    \/ sketch_pulseLE_low
    \/ sketch_settle
    \/ sketch_loop_onA
    \/ sketch_loop_onB
    \/ sketch_loop_dwellOn
    \/ sketch_loop_offA
    \/ sketch_loop_offB
    \/ sketch_loop_dwellOff

Spec == Init /\ [][Next]_vars

\* setup() and loop() run on a single thread that never stops: a step that is possible is taken
FairSpec == InitShipped /\ [][Next]_vars /\ WF_vars(Next)

-----------------------------------------------------------------------------
(* Vocabulary of the properties.                                           *)

\* the 32-bit word a chip assembles from four bytes shifted in MSB first
wordOf(b) == b[1] * (2 ^ 24) + b[2] * (2 ^ 16) + b[3] * (2 ^ 8) + b[4]

ProgrammingLabels == {"writeAll", "programPLL", "transfer", "pulseHigh", "pulseLow", "settle"}

SketchLoopLabels == {"onA", "onB", "dwellOn", "offA", "offB", "dwellOff"}

\* the programming pass of device d has returned
PassDone(d) ==
    CASE d = "T" -> prog = "test" /\ pc \in {"enable", "loop", "loopDelay", "loopHigh", "loopLow"}
      [] d = "A" -> prog = "sketch" /\ (pc \in SketchLoopLabels \/ (pc \in ProgrammingLabels /\ dev = "B"))
      [] d = "B" -> prog = "sketch" /\ pc \in SketchLoopLabels

\* planFrequency has returned into p
Planned == prog = "test" /\ pc \notin {"setup", "configure"}

\* planFrequency has just returned
JustPlanned == prog = "test" /\ pc = "applyFrequency"

-----------------------------------------------------------------------------
\* C1: in every programming pass exactly 13 register words are transmitted, and the
\* low 4 address bits of the k-th transmitted word (k = 0..12) are 12-k: the indexes
\* descend 12, 11, ..., 0 with register 0 last and none skipped or repeated.
C1_DescendingOrder ==
    \A d \in DOMAIN latched :
        /\ Len(latched[d]) <= 13
        /\ \A k \in 1..Len(latched[d]) :
              /\ Len(latched[d][k]) = 4
              /\ wordOf(latched[d][k]) % 16 = 12 - (k - 1)
        /\ PassDone(d) => Len(latched[d]) = 13

C1_Witness ==
    /\ prog = "test" /\ pc = "enable"
    /\ Len(latched["T"]) = 13
    /\ wordOf(latched["T"][1]) % 16 = 12
    /\ wordOf(latched["T"][13]) % 16 = 0

\* C2: a device's CE line is high only if the full 13-register image has been
\* written to it; CE is low (driven at setup) throughout the programming pass.
C2_EnableOnlyAfterProgramming ==
    \A d \in DOMAIN CE :
        /\ CE[d] = "HIGH" =>
              /\ PassDone(d)
              /\ Len(latched[d]) = 13
              /\ \A k \in 1..13 : Len(latched[d][k]) = 4
        /\ pc \in ProgrammingLabels => CE[d] = "LOW"

C2_Witness ==
    \E d \in DOMAIN CE : CE[d] = "HIGH" /\ Len(latched[d]) = 13


\* C3: for every target still below VCO_MIN after multiplying by the maximum divider
\* 64, planFrequency reports a range error and no bus transaction is issued.
C3_BelowBandRangeError ==
    (Planned /\ rf_out_hz < VCO_MIN \div 64) =>
        /\ serialErr
        /\ trace["T"] = <<>>
        /\ shift["T"] = <<>>
        /\ latched["T"] = <<>>

\* C4: planning errors fail closed: once planFrequency has found target * out_div
\* above VCO_MAX, no register word is written to the bus and CE is never driven high.
C4_RangeErrorFailsClosed ==
    (prog = "test" /\ serialErr) =>
        /\ trace["T"] = <<>>
        /\ shift["T"] = <<>>
        /\ latched["T"] = <<>>
        /\ CE["T"] # "HIGH"

\* C5: whenever planFrequency returns without reporting a range error, out_div is a
\* power of two in {1, ..., 64} and VCO_MIN <= target * out_div <= VCO_MAX.
C5_DividerPlacesVcoInBand ==
    (Planned /\ ~serialErr) =>
        /\ p.out_div \in {1, 2, 4, 8, 16, 32, 64}
        /\ VCO_MIN <= rf_out_hz * p.out_div
        /\ rf_out_hz * p.out_div <= VCO_MAX

\* C6: every PllParams returned by planFrequency has 0 <= FRAC < MOD and, when
\* FRAC # 0, FRAC and MOD have no common divisor above 1; when the rounded FRAC
\* equals the modulus (rounding overflow), FRAC is 0 and INT is one more than floor(N).
C6_FractionInRangeAndReduced ==
    JustPlanned =>
        LET vco == rf_out_hz * p.out_div
            mod == chooseMod(p.pfd_hz, p.out_div)
        IN  /\ 0 <= p.FRAC /\ p.FRAC < p.MOD
            /\ p.FRAC # 0 =>
                  \A k \in 2..p.FRAC : ~(p.FRAC % k = 0 /\ p.MOD % k = 0)
            /\ p.INT \in {vco \div p.pfd_hz, (vco \div p.pfd_hz) + 1}
            /\ p.INT = (vco \div p.pfd_hz) + 1 => p.FRAC = 0
            /\ rawFRAC(vco, p.pfd_hz, mod) = {mod} =>
                  p.FRAC = 0 /\ p.INT = (vco \div p.pfd_hz) + 1

C6_Witness ==
    /\ JustPlanned
    /\ rawFRAC(rf_out_hz * p.out_div, p.pfd_hz, chooseMod(p.pfd_hz, p.out_div))
          = {chooseMod(p.pfd_hz, p.out_div)}
    /\ p.FRAC = 0
    /\ p.INT = ((rf_out_hz * p.out_div) \div p.pfd_hz) + 1

\* C7: every PllParams returned by planFrequency has 2 <= MOD <= 0xFFFFFF.
C7_ModulusAtLeastTwo ==
    Planned => (2 <= p.MOD /\ p.MOD <= MOD_MAX)


\* C8: writeReg sends every word w as exactly four bytes b0, b1, b2, b3, most
\* significant first, with (b0 << 24) | (b1 << 16) | (b2 << 8) | b3 = w; no register
\* write transfers fewer or more than four bytes.
C8_FourBytesMsbFirst ==
    \A d \in DOMAIN shift :
        /\ Len(shift[d]) <= 4
        /\ \A k \in 1..Len(shift[d]) : shift[d][k] \in 0..255
        /\ \A k \in 1..Len(latched[d]) : Len(latched[d][k]) = 4
        /\ (pc = "transfer" /\ dev = d) => Len(shift[d]) = nbyte /\ nbyte < 4
        /\ (pc = "pulseHigh" /\ dev = d) => Len(shift[d]) = 4 /\ wordOf(shift[d]) = reg
        /\ (pc \in {"pulseLow", "settle"} /\ dev = d) =>
              /\ shift[d] = <<>>
              /\ wordOf(latched[d][Len(latched[d])]) = reg

C8_Witness ==
    /\ pc = "pulseHigh"
    /\ reg = \H102D0428
    /\ shift[dev] = << \H10, \H2D, \H04, \H28 >>

IsXfer(e) == e.ev = "xfer"

IsRise(e) == e.ev = "LE" /\ e.v = 1

NumXfer(d) == Len(SelectSeq(trace[d], IsXfer))

NumRise(d) == Len(SelectSeq(trace[d], IsRise))

\* C9 (state part): LE is low while a register's bytes are transferred; outside a
\* register write the LE rising edges number the completed 4-byte groups, and inside
\* one the bytes not yet latched are those of the register being written.
C9_LatchCounts ==
    \A d \in DOMAIN LE :
        /\ (pc = "transfer" /\ dev = d) =>
              LE[d] = "LOW" /\ NumXfer(d) = 4 * NumRise(d) + nbyte
        /\ (pc = "pulseHigh" /\ dev = d) =>
              LE[d] = "LOW" /\ NumXfer(d) = 4 * NumRise(d) + 4
        /\ (pc \notin {"transfer", "pulseHigh"} \/ dev # d) =>
              NumXfer(d) = 4 * NumRise(d)
        /\ (pc = "pulseLow" /\ dev = d) => LE[d] = "HIGH"
        /\ (pc \notin {"setup", "pulseLow"} \/ dev # d) => LE[d] \in {"LOW", "Z"}
        /\ NumRise(d) = Len(latched[d])

\* C9 (step part): a byte is transferred on a device's bus only while its LE line is
\* low and stays low; LE is raised only when exactly four bytes await the latch.
C9_LatchSteps ==
    \A d \in DOMAIN LE :
        /\ shift'[d] # shift[d] /\ Len(shift'[d]) > Len(shift[d]) =>
              LE[d] = "LOW" /\ LE'[d] = "LOW"
        /\ (LE[d] # "HIGH" /\ LE'[d] = "HIGH") => Len(shift[d]) = 4

\* C9: the latch protocol: LE is low during every byte transfer; after each group of
\* four bytes exactly one latch pulse (high, hold, low, hold) occurs before the next
\* register's first byte, so LE rising edges equal completed 4-byte register writes.
C9_LatchProtocol == [](C9_LatchCounts) /\ [][C9_LatchSteps]_vars

C9_Witness ==
    /\ prog = "sketch" /\ pc = "pulseLow" /\ dev = "B"
    /\ LE["B"] = "HIGH"
    /\ NumRise("B") = 7 /\ NumXfer("B") = 28
    /\ NumRise("A") = 13 /\ NumXfer("A") = 52

\* C10: after the register image is built, for every index k in 0..12 the low 4 bits
\* of regImage[k] equal k and its upper 28 bits equal those of the base template
\* entry at index k.
C10_AddressPatchedOnly ==
    (prog = "test" /\ pc \notin {"setup", "configure", "applyFrequency"}) =>
        \A k \in 0..12 :
            /\ regImage[k] % 16 = k
            /\ regImage[k] \div 16 = regImageBase[k] \div 16

C10_Witness ==
    /\ prog = "test" /\ pc = "applyOutput"
    /\ regImage # regImageBase
    /\ regImage[0] = \H00010400
    /\ regImage[12] = \H0055000C


-----------------------------------------------------------------------------
\* C11: programming the two devices A and B with the same configuration produces
\* identical transaction sequences: the bytes transferred on spiA with A's latch
\* pulses and settle delays equal, event for event, those on spiB with B's.
C11_IdenticalTransactions ==
    prog = "sketch" =>
        /\ Len(trace["B"]) <= Len(trace["A"])
        /\ SubSeq(trace["A"], 1, Len(trace["B"])) = trace["B"]
        /\ PassDone("B") => trace["A"] = trace["B"]

C11_Witness ==
    /\ prog = "sketch" /\ pc = "onA"
    /\ trace["A"] = trace["B"]
    /\ Len(trace["B"]) = 13 * 9

\* C12 (state part): at each dwell of loop() both CE lines hold the same level.
C12_DwellLevels ==
    prog = "sketch" =>
        /\ pc = "dwellOn" => (CE["A"] = "HIGH" /\ CE["B"] = "HIGH")
        /\ pc = "dwellOff" => (CE["A"] = "LOW" /\ CE["B"] = "LOW")

\* C12 (step part): the step after a write of A's CE is the write of B's CE to the
\* same level, not a delay.
C12_BackToBack ==
    prog = "sketch" =>
        /\ (pc \in SketchLoopLabels /\ CE'["A"] # CE["A"]) => pc' \in {"onB", "offB"}
        /\ pc \in {"onB", "offB"} =>
              /\ CE'["B"] = CE["A"]
              /\ CE'["A"] = CE["A"]
              /\ pc' \in {"dwellOn", "dwellOff"}

\* C12: in duty-cycled operation each enable or disable phase drives A's CE and then
\* B's CE to the same level back-to-back with no delay between the two writes, so at
\* every dwell point of the loop both CE lines hold the same level.
C12_SynchronizedEnable == [](C12_DwellLevels) /\ [][C12_BackToBack]_vars

C12_Witness ==
    /\ prog = "sketch" /\ pc = "dwellOn"
    /\ CE["A"] = "HIGH" /\ CE["B"] = "HIGH"

\* C13 (step part): while a device is being programmed only its own bus and LE line
\* change; the other device's bus and LE line and both CE lines are unchanged.
C13_OnlyOwnLines ==
    (prog = "sketch" /\ pc \in ProgrammingLabels) =>
        /\ CE' = CE
        /\ \A d \in {"A", "B"} : d # dev =>
              /\ shift'[d] = shift[d]
              /\ latched'[d] = latched[d]
              /\ trace'[d] = trace[d]
              /\ LE'[d] = LE[d]

\* C13 (state part): the 13 writes to A are complete before the first byte goes to B.
C13_AThenB ==
    prog = "sketch" =>
        /\ trace["B"] # <<>> => (PassDone("A") /\ Len(latched["A"]) = 13)
        /\ (pc \in ProgrammingLabels /\ dev = "A") => trace["B"] = <<>>

\* C13: exclusive line ownership across devices: while A is programmed only spiA and
\* A's LE change, symmetrically for B, and A's 13 writes complete before B's first byte.
C13_ExclusiveOwnership == [](C13_AThenB) /\ [][C13_OnlyOwnLines]_vars

C13_Witness ==
    /\ prog = "sketch" /\ pc = "transfer" /\ dev = "B" /\ nbyte = 2
    /\ Len(latched["A"]) = 13
    /\ Len(latched["B"]) = 3
    /\ LE["A"] = "LOW" /\ CE["A"] = "LOW" /\ CE["B"] = "LOW"


-----------------------------------------------------------------------------
\* C14: with reference 10 MHz, no doubler, no divide-by-2, R divider 1, channel step
\* 1 kHz and VCO band [6 GHz, 13 GHz], planFrequency(10.525 GHz) returns
\* pfd_hz = 10 MHz, out_div = 1, INT = 1052, FRAC = 1, MOD = 2 (raw MOD 10000 and
\* raw FRAC 5000, reduced by their gcd 5000).
C14_ConcretePlan ==
    (JustPlanned /\ rf_out_hz = 105250000 /\ channel_step_hz = 10) =>
        /\ p.pfd_hz = 100000
        /\ p.out_div = 1
        /\ p.INT = 1052
        /\ p.FRAC = 1
        /\ p.MOD = 2
        /\ chooseMod(p.pfd_hz, p.out_div) = 10000
        /\ rawFRAC(rf_out_hz * p.out_div, p.pfd_hz, 10000) = {5000}
        /\ 5000 * p.FRAC = 5000 /\ 5000 * p.MOD = 10000

C14_Witness ==
    /\ JustPlanned /\ rf_out_hz = 105250000 /\ channel_step_hz = 10
    /\ REF_IN_HZ = 100000 /\ ~REF_DOUBLER /\ ~REF_DIV2 /\ R_DIV = 1
    /\ VCO_MIN = 60000000 /\ VCO_MAX = 130000000
    /\ p.INT = 1052 /\ p.FRAC = 1 /\ p.MOD = 2

Clamped(step, div) == llround(pfd_of_ref, step * div) \notin 2..MOD_MAX

\* C16: when the computed modulus falls outside [2, MOD_MAX], planFrequency clamps it
\* to the nearest bound and the deviation of the achieved channel step is part of the
\* outcome: a clamped plan is never indistinguishable from an unclamped one.
\* (The outcome of planFrequency is the returned PllParams and what it printed, and
\* what it prints depends on the target alone.)
C16_ClampIsReported ==
    JustPlanned =>
        /\ Clamped(channel_step_hz, p.out_div) =>
              chooseMod(p.pfd_hz, p.out_div) \in {2, MOD_MAX}
        /\ \A s \in ChannelSteps :
              (Clamped(channel_step_hz, p.out_div) /\ ~Clamped(s, p.out_div)) =>
                  p \notin planFrequencyAt(s, rf_out_hz)

\* C17 (state part): building the image leaves the initial contents of regImage
\* unchanged.
C17_TemplateUnchanged == prog = "test" => regImage = regImageBase

\* C17 (step part): the image is not modified between the first and the last bus
\* write of a programming pass.
C17_StableDuringPass ==
    (prog = "test" /\ pc \in ProgrammingLabels) => regImage' = regImage

\* C17: a register image is never mutated in place: building the image leaves the
\* base template (the initial contents of regImage) unchanged, and the image is not
\* modified between the first and the last bus write of a programming pass.
C17_NeverMutatedInPlace == [](C17_TemplateUnchanged) /\ [][C17_StableDuringPass]_vars


-----------------------------------------------------------------------------
\* every device's programming pass has returned
AllDone == \A d \in DOMAIN CE : PassDone(d)

\* C18 (step part): once programming is complete no byte is transferred and no LE line
\* changes; in test.cpp CE, once high, stays high; in the sketch every CE write of the
\* loop changes the level of the line it writes.
C18_OnlyCEChanges ==
    /\ AllDone =>
          /\ trace' = trace /\ shift' = shift /\ latched' = latched /\ LE' = LE
          /\ \A d \in DOMAIN CE : PassDone(d)'
    /\ (prog = "test" /\ CE["T"] = "HIGH") => CE'["T"] = "HIGH"
    /\ (prog = "sketch" /\ pc \in SketchLoopLabels) =>
          \A d \in {"A", "B"} :
              CE'[d] # CE[d] =>
                  /\ CE[d] \in {"LOW", "HIGH"} /\ CE'[d] \in {"LOW", "HIGH"}
                  /\ \A e \in {"A", "B"} : e # d => CE'[e] = CE[e]

\* C18 (sketch, liveness): each device's CE is high infinitely often and low
\* infinitely often.
C18_SketchTogglesForever ==
    \A d \in {"A", "B"} :
        /\ []<>(prog = "sketch" => CE[d] = "HIGH")
        /\ []<>(prog = "sketch" => CE[d] = "LOW")

\* C18 (test.cpp, liveness): CE becomes high and stays high forever.
C18_TestStaysEnabled == <>[](prog = "test" => CE["T"] = "HIGH")

\* C18: steady state after setup: once the programming pass has completed no further
\* byte transfer or latch pulse occurs; the only line changes are CE transitions, which
\* in the sketch alternate high, low, high, ... for each device forever, and in
\* test.cpp (TOGGLE_CE_IN_LOOP false) CE stays high forever.
C18_SteadyState ==
    /\ [][C18_OnlyCEChanges]_vars
    /\ C18_SketchTogglesForever
    /\ C18_TestStaysEnabled

C18_Witness ==
    /\ prog = "sketch" /\ pc = "dwellOff"
    /\ CE["A"] = "LOW" /\ CE["B"] = "LOW"
    /\ Len(latched["A"]) = 13 /\ Len(latched["B"]) = 13
    /\ LE["A"] = "LOW" /\ LE["B"] = "LOW"

\* C19: in test.cpp the base-image entry commented 'Rk' is transmitted as register k:
\* the 13 words sent are, in order, the entries labelled R12, R11, ..., R0 of the base
\* image, the same sequence the sketch's programPLL transmits (0x0001040C first,
\* 0x00550000 last).
C19_LabelledEntriesInOrder ==
    prog = "test" =>
        \A k \in 1..Len(latched["T"]) :
            /\ wordOf(latched["T"][k]) = regImageBase[k - 1]
            /\ wordOf(latched["T"][k]) = regs[k - 1]

\* the 13 words test.cpp puts on the bus, first to last
TestWords ==
    << \H0055000C, \H00000A4B, \H0000100A, \H00000009, \H00000008,
       \H00800007, \H35000006, \H12000005, \H102D0424, \H00000003,
       \H00C00002, \H00613001, \H00010400 >>

\* C20: the words configureFromUserSettings transmits do not depend on the planned
\* parameters: for every target (every INT, FRAC, MOD, out_div) they are the same 13
\* words, and a second call would transmit the same words again (building the image
\* from the built image gives the built image).
C20_WordsIndependentOfPlan ==
    prog = "test" =>
        /\ \A k \in 1..Len(latched["T"]) : wordOf(latched["T"][k]) = TestWords[k]
        /\ pc \notin {"setup", "configure", "applyFrequency"} =>
              /\ applyFrequencyToRegs(regImage) = regImage
              /\ \A k \in 1..13 : regImage[13 - k] = TestWords[k]
        /\ PassDone("T") => Len(latched["T"]) = 13

C20_Witness ==
    /\ prog = "test" /\ pc = "enable"
    /\ rf_out_hz # RF_OUT_HZ
    /\ p.INT # 1052 /\ p.FRAC # 1 /\ p.out_div # 1
    /\ Len(latched["T"]) = 13
    /\ \A k \in 1..13 : wordOf(latched["T"][k]) = TestWords[k]

====
